---- MODULE Spec2Model ----
(***************************************************************************)
(* comrot: a size-triggered, optionally compressing log rotation writer.   *)
(*                                                                         *)
(* The model follows src/comrot.go.  Several threads call Write, Rotate,   *)
(* Open and Close on one RotateWriter; every handler runs under w.mu.  The *)
(* handlers that do not rotate are one step; a rotation is up to four      *)
(* steps (close and rename, compress, drain, reopen) so that the           *)
(* goroutines started with `go` (removal of the uncompressed source,       *)
(* retention deletions) and the garbage collector interleave with it.      *)
(* The clock is read by rotate alone, so it advances where rotate reads it.*)
(*                                                                         *)
(* Bytes are numbered: the file found at construction holds the negative   *)
(* numbers -k..-1, and the i-th byte that a Write reports as written is i. *)
(***************************************************************************)
EXTENDS Integers, Sequences, FiniteSets, Bags, TLC

\* ---------------------------------------------------------------- bounds
MaxTime    == 2      \* distinct seconds in which rotations fall in one run
MaxSize    == 2      \* w.MaxSize, the rotation threshold in bytes
MaxKeep    == 1      \* the bounded value of w.MaxFiles
MaxCalls   == 2      \* calls of Open, Close, Write and Rotate in one run
MaxFaults  == 1      \* system calls that fail in one run
NThreads   == 2      \* threads calling the writer

\* ---------------------------------------------------- program constants
MaxInt   == 1000000  \* stands for int(^uint(0) >> 1), "MaxFiles unbounded"
TsWidth  == 25       \* len(TimeFmt), "2006-01-02T15:04:05Z07:00"
UtcWidth == 20       \* length of time.Now().Format(TimeFmt) in UTC, "...T15:04:05Z"
GzExt    == 3        \* len(".gz")

Threads == 1..NThreads

Nil  == "nil"
File == "file"

VARIABLES
    compress,   \* w.Compress
    maxFiles,   \* w.MaxFiles
    utc,        \* time.Now() is in UTC (only drain depends on the zone, and
                \* only with MaxFiles bounded)
    orig,       \* the content found at the log path at construction
    others,     \* the names found in the directory at construction that are
                \* no archives of this log
    now,        \* the second time.Now() last fell in (0: not read yet); only
                \* the order of the seconds matters, so they are numbered 1, 2, ..
    fp,         \* w.fp: Nil or File (a handle on the file at the log path)
    fsize,      \* w.fsize
    handles,    \* operating-system handles open on the file at the log path
    files,      \* the directory: file name -> content
    born,       \* archive name -> the rotation (1st, 2nd, ..) that made the file
    tasks,      \* goroutines started with `go`: a bag of the sequences of
                \* names each has yet to remove, each name with the rotation
                \* that made the file the goroutine was started for
    mu,         \* w.mu: 0 or the thread that holds it
    pc,         \* where each thread is in its handler
    call,       \* the call each thread is in
    ncalls,     \* calls started so far
    written,    \* bytes reported as written by the Writes so far
    nfaults,    \* system calls that failed so far
    stamps,     \* timestamps of the rotations that renamed the log file
    collided,   \* two such rotations fell in the same second
    ncross,     \* Writes with on-disk size + len(out) > MaxSize so far
    manual,     \* Rotate was called
    prevFailed, \* the last call that returned was a Rotate that returned an error
    nrot,       \* rotations that renamed the log file so far
    stole,      \* a goroutine removed a file that a later rotation made
    last        \* the call that returned in the last step, if any

cfg  == <<compress, maxFiles, utc, orig, others>>
hist == <<ncalls, written, nfaults, stamps, collided, ncross, manual, prevFailed,
          nrot, stole>>
vars == <<compress, maxFiles, utc, orig, others, now, fp, fsize, handles, files,
          born, tasks, mu, pc, call, ncalls, written, nfaults, stamps, collided,
          ncross, manual, prevFailed, nrot, stole, last>>

\* ------------------------------------------------------------ file names
LogName    == [kind |-> "log", ts |-> 0, gz |-> FALSE]
Arch(t, z) == [kind |-> "arch", ts |-> t, gz |-> z]
RawName(t) == Arch(t, FALSE)
GzName(t)  == Arch(t, TRUE)

\* Other files of the directory: Alien has another prefix of the length of
\* the base name, one more character and a timestamp older than every
\* rotation ("web.log.2006-01-02T15:04:05+01:00" next to "app.log"); Plain is
\* as long and holds no timestamp; Brief is shorter than the base name, the
\* separator and a timestamp.
Alien == [kind |-> "alien", ts |-> 0, gz |-> FALSE]
Plain == [kind |-> "plain", ts |-> 0, gz |-> FALSE]
Brief == [kind |-> "brief", ts |-> 0, gz |-> FALSE]

\* Characters of a name after `base + "."`: the formatted timestamp and ".gz".
Format(isUtc) == IF isUtc THEN UtcWidth ELSE TsWidth
ExtLen(n) == CASE n.kind = "log"   -> -1
               [] n.kind = "arch"  -> Format(utc) + (IF n.gz THEN GzExt ELSE 0)
               [] n.kind = "brief" -> 0
               [] OTHER            -> TsWidth

Min(a, b) == IF a < b THEN a ELSE b
Exists(fs, n) == n \in DOMAIN fs
Without(fs, n) == [m \in DOMAIN fs \ {n} |-> fs[m]]
Put(fs, n, c) == [m \in DOMAIN fs \cup {n} |-> IF m = n THEN c ELSE fs[m]]
NoFiles == [m \in {} |-> << >>]
Prefix(s, k) == SubSeq(s, 1, k)

\* gzip and its inverse: a length header, then the bytes.
Gzip_short(s) == <<Len(s)>> \o Prefix(s, Len(s) - 1)
Gzip(s)    == <<Len(s)>> \o s
GzValid(z) == Len(z) >= 1 /\ z[1] = Len(z) - 1
Gunzip(z)  == Tail(z)

\* The lengths of the payloads and of the file found at construction.
Lens == {0, 1, MaxSize + 1}
\* What one w.fp.Write(out) persists: all of out, or, failing, none of it or
\* all but its last byte.
Persisted(len) == {0, len - 1, len} \cap 0..len
Payload(len) == [i \in 1..len |-> written + i]
Numbers(k)   == [i \in 1..k |-> i]
Leftover(k)  == [i \in 1..k |-> i - k - 1]

LiveContent(fs) == IF Exists(fs, LogName) THEN fs[LogName] ELSE <<>>

\* A call in progress: its operation, len(out), the timestamp its rotation
\* used, the on-disk size at the threshold test, the contents of the log file
\* at entry, and what the open-if-closed and rotate steps returned.
NoCall == [op |-> "none", len |-> 0, ts |-> 0, size0 |-> 0,
           wasOpen |-> FALSE, preEx |-> FALSE, pre |-> <<>>,
           oerr |-> "ok", rerr |-> "ok"]
\* A call that returned: the same, with the error and the count
\* returned, whether it rotated, whether it followed a failed Rotate, and the
\* step it returned from ("idle": the first).
NoLast == [op |-> "none", err |-> "ok", n |-> 0, len |-> 0,
           rotated |-> FALSE, ts |-> 0, size0 |-> 0, wasOpen |-> FALSE,
           preEx |-> FALSE, pre |-> <<>>, oerr |-> "ok", rerr |-> "ok",
           afterFail |-> FALSE, at |-> "idle"]

\* -------------------------------------------------------------- w.mu.Lock
Lock_broken(t) == TRUE
Lock(t) == mu = 0

\* ------------------------------------------------------------------ open
\* os.Stat, then os.Create (the file is absent) or os.OpenFile(O_APPEND).
open_trunc(fs, h, sz, fail) ==
    IF fail THEN [fp |-> Nil, fsize |-> IF Exists(fs, LogName) THEN sz ELSE 0,
                  files |-> fs, handles |-> h, err |-> "err"]
    ELSE [fp |-> File, fsize |-> 0, files |-> Put(fs, LogName, <<>>),
          handles |-> h + 1, err |-> "ok"]
open(fs, h, sz, fail) ==
    IF ~Exists(fs, LogName)
    THEN IF fail
         THEN [fp |-> Nil, fsize |-> 0, files |-> fs, handles |-> h, err |-> "err"]
         ELSE [fp |-> File, fsize |-> 0, files |-> Put(fs, LogName, <<>>),
               handles |-> h + 1, err |-> "ok"]
    ELSE IF fail
         THEN [fp |-> Nil, fsize |-> sz, files |-> fs, handles |-> h, err |-> "err"]
         ELSE [fp |-> File, fsize |-> Len(fs[LogName]), files |-> fs,
               handles |-> h + 1, err |-> "ok"]

\* ----------------------------------------------------------------- close
\* w.fp = nil, then w.fp.Close() on the nil handle: os.ErrInvalid, and the
\* handle that was held is not closed.
close(f, h) ==
    IF f = Nil THEN [fp |-> Nil, handles |-> h, err |-> "ok"]
    ELSE [fp |-> Nil, handles |-> h, err |-> "invalid"]

\* ----------------------------------------------------------------- write
\* n, err := w.fp.Write(out); w.fsize += n.  k is what the system call
\* persists (k < len(out): a partial write, which Go reports as an error).
write_requested(fs, f, sz, out, k) ==
    IF f = Nil THEN [n |-> 0, err |-> "invalid", files |-> fs, fsize |-> sz]
    ELSE [n |-> k, err |-> IF k < Len(out) THEN "err" ELSE "ok",
          files |-> Put(fs, LogName, fs[LogName] \o Prefix(out, k)),
          fsize |-> sz + Len(out)]
write(fs, f, sz, out, k) ==
    IF f = Nil THEN [n |-> 0, err |-> "invalid", files |-> fs, fsize |-> sz]
    ELSE [n |-> k, err |-> IF k < Len(out) THEN "err" ELSE "ok",
          files |-> Put(fs, LogName, fs[LogName] \o Prefix(out, k)),
          fsize |-> sz + k]

\* w.fsize+int64(len(out)) > int64(w.MaxSize)
Exceeds_size(sz, len) == sz > MaxSize
Exceeds(sz, len) == sz + len > MaxSize

\* ----------------------------------------------------------------- drain
\* The entries ioutil.ReadDir lists that drain does not skip.
Listed(fs) == {n \in DOMAIN fs : n.kind # "log"}
\* file[len(base)+1 : len(base)+1+len(TimeFmt)] panics on a shorter name.
Short(n) == ExtLen(n) < TsWidth
\* The entries time.Parse accepts, with the time each carries in n.ts.
Parsed(fs) == {n \in Listed(fs) : n.kind \in {"arch", "alien"}}
MaxTs(S) == CHOOSE m \in {n.ts : n \in S} : \A n \in S : n.ts <= m

\* sort.Sort(byTime(frags)): newest first; sort.Sort is not stable, entries
\* with equal times come out in any order.
RECURSIVE byTime(_)
byTime(S) ==
    IF S = {} THEN {<< >>}
    ELSE UNION {{<<x>> \o r : r \in byTime(S \ {x})} :
                x \in {y \in S : y.ts = MaxTs(S)}}

\* The outcomes of drain: it panics, or it hands `deletes` to a goroutine.
drain(fs, mf, fail) ==
    IF mf = MaxInt \/ fail THEN {[panic |-> FALSE, deletes |-> << >>]}
    ELSE IF \E n \in Listed(fs) : Short(n)
         THEN {[panic |-> TRUE, deletes |-> << >>]}
         ELSE {[panic |-> FALSE,
                deletes |-> IF mf < Len(s) THEN SubSeq(s, mf + 1, Len(s))
                            ELSE << >>] : s \in byTime(Parsed(fs))}

\* ------------------------------------------------------------- the state
\* A RotateWriter as the struct literal leaves it (w.fp nil, w.fsize 0) next
\* to a log path that holds nothing or a file; NewRotateWriter is this
\* followed by Open.  Only drain reads the other names of the directory,
\* with MaxFiles bounded, and whether the writer compresses makes no
\* difference to what it does with them; in a zone at offset 0 it panics on
\* the archive itself.  The directory holds other names in the remaining
\* case: MaxFiles bounded, a zone with a numeric offset, no compression.
Init ==
    /\ compress \in BOOLEAN
    /\ maxFiles \in {MaxKeep, MaxInt}
    /\ utc \in IF maxFiles = MaxInt THEN {FALSE} ELSE BOOLEAN
    /\ others \in IF maxFiles = MaxInt \/ utc \/ compress THEN {{}}
                 ELSE {{}, {Alien, Plain}, {Brief}}
    /\ \E k \in {-1, 1, MaxSize + 1} :
          /\ orig = IF k < 0 THEN << >> ELSE Leftover(k)
          /\ files = [n \in others \cup (IF k < 0 THEN {} ELSE {LogName}) |->
                        IF n = LogName THEN Leftover(k) ELSE << >>]
    /\ now = 0
    /\ fp = Nil
    /\ fsize = 0
    /\ handles = 0
    /\ born = NoFiles
    /\ tasks = EmptyBag
    /\ mu = 0
    /\ pc = [t \in Threads |-> "idle"]
    /\ call = [t \in Threads |-> NoCall]
    /\ ncalls = 0
    /\ written = 0
    /\ nfaults = 0
    /\ stamps = {}
    /\ collided = FALSE
    /\ ncross = 0
    /\ manual = FALSE
    /\ prevFailed = FALSE
    /\ nrot = 0
    /\ stole = FALSE
    /\ last = NoLast

\* The system calls of a step that may fail; at most one does.
FaultsAfter(nf, S) == {"none"} \cup (IF nf < MaxFaults THEN S ELSE {})
Faults(S) == FaultsAfter(nfaults, S)
Hit(f) == IF f = "none" THEN 0 ELSE 1

\* A thread calls the writer and takes w.mu.  The callers are
\* interchangeable, so a call is made by the first thread that is in none.
Enter(t) ==
    /\ pc[t] = "idle"
    /\ \A u \in 1..(t - 1) : pc[u] # "idle"
    /\ ncalls < MaxCalls
    /\ Lock(t)
    /\ ncalls' = ncalls + 1

\* The deferred w.mu.Unlock() of a handler that returns r.
Return(t, r) ==
    /\ last' = [r EXCEPT !.at = pc[t]]
    /\ mu' = 0
    /\ pc' = [pc EXCEPT ![t] = "idle"]
    /\ call' = [call EXCEPT ![t] = NoCall]
    /\ prevFailed' = (r.op = "Rotate" /\ r.err = "err")

Result(c, e, k, rot) ==
    [op |-> c.op, err |-> e, n |-> k, len |-> c.len, rotated |-> rot,
     ts |-> c.ts, size0 |-> c.size0, wasOpen |-> c.wasOpen, preEx |-> c.preEx,
     pre |-> c.pre, oerr |-> c.oerr, rerr |-> c.rerr, afterFail |-> prevFailed,
     at |-> "idle"]

Entry(op, len) ==
    [op |-> op, len |-> len, ts |-> 0, size0 |-> 0, wasOpen |-> fp # Nil,
     preEx |-> Exists(files, LogName), pre |-> LiveContent(files),
     oerr |-> "ok", rerr |-> "ok"]

\* go: one more goroutine that removes the names of s in turn.
Go(b, s) == IF s = << >> THEN b ELSE b (+) SetToBag({s})
\* The names of s, each with the rotation that made the file it names now.
Born(n) == IF n \in DOMAIN born THEN born[n] ELSE 0
Tag(s)  == [i \in 1..Len(s) |-> [name |-> s[i], gen |-> Born(s[i])]]

\* ------------------------------------------------------------------ Open
Open(t) ==
    /\ Enter(t)
    /\ \E f \in Faults({"open"}) :
         LET o == open(files, handles, fsize, f = "open") IN
         /\ fp' = o.fp /\ fsize' = o.fsize
         /\ files' = o.files /\ handles' = o.handles
         /\ nfaults' = nfaults + Hit(f)
         /\ Return(t, Result(Entry("Open", 0), o.err, 0, FALSE))
    /\ UNCHANGED <<cfg, now, born, tasks, written, stamps, collided, ncross,
                   manual, nrot, stole>>

\* ----------------------------------------------------------------- Close
Close(t) ==
    /\ Enter(t)
    /\ LET c == close(fp, handles) IN
         /\ fp' = c.fp /\ handles' = c.handles
         /\ Return(t, Result(Entry("Close", 0), c.err, 0, FALSE))
    /\ UNCHANGED <<cfg, now, fsize, files, born, tasks, written, nfaults, stamps,
                   collided, ncross, manual, nrot, stole>>

\* ---------------------------------------------------------------- rotate
\* rotate returned e before it reopened the log: Rotate returns e; Write
\* drops e and calls w.write(out) with w.fp == nil.
Abort(t, c, e) ==
    /\ Return(t, IF c.op = "Rotate" THEN Result(c, e, 0, TRUE)
                 ELSE Result([c EXCEPT !.rerr = e], "invalid", 0, TRUE))
    /\ UNCHANGED written

\* w.fp after `err = w.fp.Close(); w.fp = nil`: nil, whatever Close returned.
closed_onSuccess(f, fault) == IF fault = "close" THEN f ELSE Nil
closed(f, fault) == Nil

\* time.Now(): the second of the last reading, or a later one.
Clock == {now, now + 1} \cap 1..MaxTime

\* rotate, first part, in call c with w.fp = f, h handles, the directory fs:
\* close the handle, stat the log file, rename it to rot.
Archive(t, c, f, h, fs, fault) ==
    \E tnow \in Clock :
      LET h1  == IF f = Nil THEN h ELSE h - 1
          rot == RawName(tnow)
      IN
      /\ fp' = closed(f, fault)
      /\ IF fault \in {"close", "rename"}
         THEN /\ tnow = Min(now + 1, MaxTime)
              /\ handles' = h1
              /\ files' = fs
              /\ Abort(t, c, "err")
              /\ UNCHANGED <<now, stamps, collided, born, nrot>>
         ELSE /\ IF Exists(fs, LogName)
                 THEN /\ files' = Put(Without(fs, LogName), rot, fs[LogName])
                      /\ born' = Put(born, rot, nrot + 1)
                      /\ nrot' = nrot + 1
                      /\ handles' = 0
                      /\ now' = tnow
                      /\ stamps' = stamps \cup {tnow}
                      /\ collided' = (collided \/ tnow \in stamps)
                      /\ pc' = [pc EXCEPT ![t] = IF compress THEN "compress"
                                                 ELSE "sweep"]
                      /\ call' = [call EXCEPT ![t] = [c EXCEPT !.ts = tnow]]
                 ELSE /\ tnow = Min(now + 1, MaxTime)
                      /\ files' = fs
                      /\ handles' = h1
                      /\ pc' = [pc EXCEPT ![t] = "sweep"]
                      /\ call' = [call EXCEPT ![t] = c]
                      /\ UNCHANGED <<now, stamps, collided, born, nrot>>
              /\ mu' = t
              /\ last' = NoLast
              /\ UNCHANGED <<written, prevFailed>>

\* ----------------------------------------------------------------- Write
\* Lock; open if closed (the error is dropped); then rotate when the write
\* exceeds the threshold, or write and return.  k is what w.fp.Write persists.
Write(t) ==
    /\ Enter(t)
    /\ \E len \in Lens, f \in Faults({"open", "short", "close", "rename"}) :
         LET o == IF fp = Nil THEN open(files, handles, fsize, f = "open")
                  ELSE [fp |-> fp, fsize |-> fsize, files |-> files,
                        handles |-> handles, err |-> "ok"]
             c == [Entry("Write", len) EXCEPT
                      !.size0 = Len(LiveContent(o.files)), !.oerr = o.err]
         IN
         /\ f = "open" => fp = Nil
         /\ nfaults' = nfaults + Hit(f)
         /\ ncross' = IF c.size0 + len > MaxSize
                       THEN Min(ncross + 1, MaxTime + 1) ELSE ncross
         /\ IF Exceeds(o.fsize, len)
            THEN /\ f # "short"
                 /\ f = "close" => o.fp # Nil
                 /\ f = "rename" => Exists(o.files, LogName)
                 /\ fsize' = o.fsize
                 /\ Archive(t, c, o.fp, o.handles, o.files, f)
            ELSE \E k \in Persisted(len) :
                 LET w == write(o.files, o.fp, o.fsize, Payload(len), k) IN
                 /\ f \notin {"close", "rename"}
                 /\ (f = "short") = (o.fp # Nil /\ k < len)
                 /\ o.fp = Nil => k = 0
                 /\ fp' = o.fp /\ fsize' = w.fsize /\ files' = w.files
                 /\ handles' = o.handles
                 /\ written' = written + w.n
                 /\ Return(t, Result(c, w.err, w.n, FALSE))
                 /\ UNCHANGED <<now, stamps, collided, born, nrot>>
    /\ UNCHANGED <<cfg, tasks, manual, stole>>

\* ---------------------------------------------------------------- Rotate
Rotate(t) ==
    /\ Enter(t)
    /\ \E f \in Faults({"close", "rename"}) :
         /\ f = "close" => fp # Nil
         /\ f = "rename" => Exists(files, LogName)
         /\ nfaults' = nfaults + Hit(f)
         /\ Archive(t, Entry("Rotate", 0), fp, handles, files, f)
    /\ manual' = TRUE
    /\ UNCHANGED <<cfg, fsize, tasks, ncross, stole>>

\* What compress hands to `go os.Remove`: the source once rot.gz is written,
\* nothing when it returned an error before.
Removal_always(src, done) == Tag(<<src>>)
Removal(src, done) == IF done THEN Tag(<<src>>) ELSE << >>

\* compress(rot): read the archive, write rot.gz, start the removal of rot.
\* "gzwrite": ioutil.WriteFile fails before it creates rot.gz; "gztrunc": it
\* fails after it wrote a part of it.
Compress(t) ==
    /\ pc[t] = "compress"
    /\ \E f \in Faults({"gzopen", "gzwrite", "gztrunc"}) :
         LET src == RawName(call[t].ts)
             dst == GzName(call[t].ts)
         IN
         /\ f # "none" => Exists(files, src)
         /\ nfaults' = nfaults + Hit(f)
         /\ IF f # "none" \/ ~Exists(files, src)
            THEN /\ files' = IF f = "gztrunc"
                              THEN Put(files, dst,
                                       Prefix(Gzip(files[src]), Len(files[src])))
                              ELSE files
                 /\ born' = IF f = "gztrunc" THEN Put(born, dst, born[src])
                             ELSE born
                 /\ Abort(t, call[t], "err")
                 /\ tasks' = Go(tasks, Removal(src, FALSE))
            ELSE /\ files' = Put(files, dst, Gzip(files[src]))
                 /\ born' = Put(born, dst, born[src])
                 /\ tasks' = Go(tasks, Removal(src, TRUE))
                 /\ pc' = [pc EXCEPT ![t] = "sweep"]
                 /\ last' = NoLast
                 /\ UNCHANGED <<mu, call, written, prevFailed>>
    /\ UNCHANGED <<cfg, now, fp, fsize, handles, ncalls, stamps, collided,
                   ncross, manual, nrot, stole>>

\* rotate, last part, after nf failed system calls: open; Write then writes.
Reopen(t, nf) ==
    \E f \in FaultsAfter(nf, {"open", "short"}) :
         LET c == call[t]
             o == open(files, handles, fsize, f = "open")
         IN
         /\ nfaults' = nf + Hit(f)
         /\ handles' = o.handles
         /\ fp' = o.fp
         /\ IF c.op = "Rotate"
            THEN /\ f # "short"
                 /\ fsize' = o.fsize /\ files' = o.files
                 /\ Return(t, Result(c, o.err, 0, TRUE))
                 /\ UNCHANGED written
            ELSE \E k \in Persisted(c.len) :
                 LET w == write(o.files, o.fp, o.fsize, Payload(c.len), k) IN
                 /\ (f = "short") = (o.fp # Nil /\ k < c.len)
                 /\ o.fp = Nil => k = 0
                 /\ fsize' = w.fsize /\ files' = w.files
                 /\ written' = written + w.n
                 /\ Return(t, Result([c EXCEPT !.rerr = o.err],
                                     w.err, w.n, TRUE))

\* rotate, third part: drain.  A panic of drain unwinds the handler (the
\* deferred Unlock runs).  When drain starts a goroutine with deletions, the
\* goroutine may run before rotate opens the log; when it has nothing to
\* delete, rotate goes on in the same step.
Sweep(t) ==
    /\ pc[t] = "sweep"
    /\ \E f \in Faults({"readdir"}) :
       \E d \in drain(files, maxFiles, f = "readdir") :
         /\ f = "readdir" => maxFiles # MaxInt
         /\ IF d.panic
            THEN /\ Return(t, Result(call[t], "panic", 0, TRUE))
                 /\ nfaults' = nfaults + Hit(f)
                 /\ UNCHANGED <<tasks, fp, fsize, handles, files, written>>
            ELSE IF d.deletes = << >>
            THEN /\ Reopen(t, nfaults + Hit(f))
                 /\ UNCHANGED tasks
            ELSE /\ tasks' = Go(tasks, Tag(d.deletes))
                 /\ pc' = [pc EXCEPT ![t] = "finish"]
                 /\ last' = NoLast
                 /\ nfaults' = nfaults + Hit(f)
                 /\ UNCHANGED <<mu, call, prevFailed, fp, fsize, handles, files,
                                written>>
    /\ UNCHANGED <<cfg, now, born, ncalls, stamps, collided, ncross, manual,
                   nrot, stole>>

\* The goroutine of drain is started: rotate opens the log.
Finish(t) ==
    /\ pc[t] = "finish"
    /\ Reopen(t, nfaults)
    /\ UNCHANGED <<cfg, now, born, tasks, ncalls, stamps, collided, ncross,
                   manual, nrot, stole>>

\* ------------------------------------------------------- background work
\* The finalizer of an os.File nothing refers to any more closes its handle.
Finalize ==
    /\ handles > (IF fp = Nil THEN 0 ELSE 1)
    /\ handles' = handles - 1
    /\ last' = NoLast
    /\ UNCHANGED <<cfg, now, fp, fsize, files, born, tasks, mu, pc, call, hist>>

\* The name a goroutine with the names g left removes next.
Target_live(g) == LogName
Target(g) == Head(g).name

\* One os.Remove of a goroutine started by compress or by drain.
Remove ==
    /\ \E g \in BagToSet(tasks) :
         LET n == Target(g) IN
         /\ files' = IF Exists(files, n) THEN Without(files, n) ELSE files
         /\ born' = IF n \in DOMAIN born THEN Without(born, n) ELSE born
         /\ stole' = (stole \/ (Exists(files, n) /\ Born(n) # Head(g).gen))
         /\ tasks' = Go(tasks (-) SetToBag({g}), Tail(g))
    /\ last' = NoLast
    /\ UNCHANGED <<cfg, now, fp, fsize, handles, mu, pc, call, ncalls, written,
                   nfaults, stamps, collided, ncross, manual, prevFailed, nrot>>

\* ------------------------------------------------------------------ Next
Next ==
    \/ \E t \in Threads : Open(t)
    \/ \E t \in Threads : Close(t)
    \/ \E t \in Threads : Write(t)
    \/ \E t \in Threads : Rotate(t)
    \/ \E t \in Threads : Compress(t)
    \/ \E t \in Threads : Sweep(t)
    \/ \E t \in Threads : Finish(t)
    \/ Finalize
    \/ Remove

Spec == Init /\ [][Next]_vars

\* ================================================================ claims
Idle     == \A t \in Threads : pc[t] = "idle"
Quiet    == Idle /\ tasks = EmptyBag
Archives == {n \in DOMAIN files : n.kind = "arch"}
GzFiles  == {n \in Archives : n.gz}
RawFiles == {n \in Archives : ~n.gz}

\* What can be read back of the archive of second ts: the renamed file, or,
\* once it is removed, what its .gz decompresses to.
ArchData(ts) ==
    IF Exists(files, RawName(ts)) THEN files[RawName(ts)]
    ELSE IF Exists(files, GzName(ts)) /\ GzValid(files[GzName(ts)])
         THEN Gunzip(files[GzName(ts)])
         ELSE << >>
RECURSIVE ArchivedUpTo(_)
ArchivedUpTo(ts) == IF ts = 0 THEN << >> ELSE ArchivedUpTo(ts - 1) \o ArchData(ts)
\* The archives in timestamp order, then the live file.
AllData  == ArchivedUpTo(MaxTime) \o LiveContent(files)
\* What was at the log path at construction, then the bytes the Writes
\* reported as written, in call order.
Expected == orig \o Numbers(written)

Newest == {x \in stamps : Cardinality({y \in stamps : y > x}) < MaxKeep}

\* C2: with MaxFiles = K, after M > K rotations that each archived a file (in
\* distinct seconds, no system call failing, in a zone with a numeric offset,
\* nothing else in the directory),
\* once every background deletion has run exactly K archive files remain, and
\* they are those with the K newest timestamps.
C2_Retention ==
    (/\ Quiet /\ maxFiles = MaxKeep /\ ~utc /\ nfaults = 0 /\ ~collided
     /\ others = {} /\ Cardinality(stamps) > MaxKeep)
    => /\ Cardinality(Archives) = MaxKeep
       /\ {n.ts : n \in Archives} = Newest

\* C3: at most one operating-system handle is open on the log path.
C3_OneHandle == handles <= 1

\* C4: Close on a writer returns no error and leaves it closed, the first
\* time (the writer is open) and the second time (it is closed already).
C4_IdempotentClose == last.op = "Close" => (last.err = "ok" /\ fp = Nil)

\* C5: whenever the writer holds a handle, w.fsize is the length of the file
\* at the log path.
C5_SizeCounter ==
    fp # Nil => (Exists(files, LogName) /\ fsize = Len(files[LogName]))

\* A Write that rotated and then persisted a part of its payload.
C5_Witness ==
    /\ fp # Nil /\ last.op = "Write" /\ last.rotated
    /\ 0 < last.n /\ last.n < last.len /\ fsize = last.n

\* C6: a Write whose open-if-closed step succeeded rotates exactly when the
\* on-disk size plus len(out) exceeds MaxSize; and with compression off, no
\* Rotate call, rotations in distinct seconds, no system call failing, nothing
\* else in the directory and no more crossing Writes than MaxFiles, there are
\* as many archive files as Writes that crossed, and beside the archive of
\* one such Write a live file.
C6_Threshold ==
    /\ (last.op = "Write" /\ last.oerr = "ok")
       => (last.rotated <=> last.size0 + last.len > MaxSize)
    /\ (Idle /\ ~compress /\ ~manual /\ ~collided /\ nfaults = 0
        /\ others = {} /\ ncross <= maxFiles)
       => /\ Cardinality(Archives) = ncross
          /\ ncross = 1 => Exists(files, LogName)

\* The bytes the call that returned appended: the last it reported.
Appended == [i \in 1..last.n |-> written - last.n + i]

\* C7: Open, and the open-if-closed step of a Write, keep what the file at the
\* log path holds; a Write that did not rotate leaves that followed by the
\* bytes it reports as written.
C7_AppendOnReopen ==
    /\ (last.op = "Open" /\ last.preEx)
       => (Exists(files, LogName) /\ files[LogName] = last.pre)
    /\ (last.op = "Write" /\ last.preEx /\ ~last.rotated)
       => (Exists(files, LogName) /\ files[LogName] = last.pre \o Appended)

\* A writer that was closed writes one byte to the file found at construction.
C7_Witness ==
    /\ last.op = "Write" /\ ~last.wasOpen /\ ~last.rotated /\ last.err = "ok"
    /\ last.pre = orig /\ orig # << >> /\ last.n = 1
    /\ files[LogName] = orig \o <<1>>

\* C8: with compression on, after one rotation, triggered by a Write, of the
\* log file found at construction (no system call failing), once the
\* background removals have run exactly one .gz archive exists and no
\* uncompressed archive.
C8_Compression ==
    (/\ Quiet /\ compress /\ nfaults = 0 /\ ~manual /\ ~collided
     /\ orig # << >> /\ Cardinality(stamps) = 1 /\ ncross = 1)
    => (Cardinality(GzFiles) = 1 /\ RawFiles = {})

\* C9: at most one thread is inside a handler, it holds w.mu, and while a
\* thread is inside a rotation no step of any other thread changes w.fp,
\* w.fsize, the live file or the count of bytes written.
InCall == {t \in Threads : pc[t] # "idle"}
OneInCall ==
    /\ Cardinality(InCall) <= 1
    /\ \A t \in InCall : mu = t
    /\ InCall = {} => mu = 0
OnlyHolder ==
    \A t \in InCall :
        (\/ fp' # fp \/ fsize' # fsize \/ written' # written
         \/ LiveContent(files') # LiveContent(files)
         \/ Exists(files', LogName) # Exists(files, LogName))
        => pc'[t] # pc[t]
C9_MutualExclusion == []OneInCall /\ [][OnlyHolder]_vars

\* A thread is between the close-old and the reopen step of a rotation,
\* in the second call of the run.
C9_Witness == \E t \in Threads : pc[t] = "finish" /\ mu = t /\ ncalls = 2

\* C10: a Rotate that returns an error leaves w.fp nil, and an Open that
\* succeeds right after it leaves the writer open with w.fsize the length
\* of the file at the log path.
C10_RecoverableFailure ==
    /\ (last.op = "Rotate" /\ last.err = "err") => fp = Nil
    /\ (last.op = "Open" /\ last.afterFail /\ last.err = "ok")
       => (fp # Nil /\ Exists(files, LogName) /\ fsize = Len(files[LogName]))

\* An Open succeeded right after a Rotate that failed on a writer that was
\* open.
C10_Witness ==
    /\ last.op = "Open" /\ last.afterFail /\ last.err = "ok"
    /\ fp # Nil /\ handles >= 1

\* C11: a Write whose open-if-closed step or whose rotation failed with a
\* filesystem error returns that error to its caller (not another one, and
\* not success).
C11_WritePropagates ==
    (last.op = "Write" /\ (last.oerr = "err" \/ last.rerr = "err"))
    => last.err = "err"

\* C12: every name found in the directory at construction that is not an
\* archive of this log (another prefix of the same length before a
\* timestamp, no timestamp, too short for one) is still on disk, after any
\* number of rotations.
C12_KeepsOthers == \A n \in others : Exists(files, n)

\* C13: in a zone with a numeric offset, whatever the directory holds and
\* whether or not it can be listed, drain returns: no Write and no Rotate that
\* rotates ends in a panic of the sweep.
C13_SweepReturns == (~utc /\ last.rotated) => last.err # "panic"

\* drain's extraction of the time of a directory entry: the slice of
\* len(TimeFmt) characters after the base name and the separator, parsed.
Extract(n) ==
    IF Short(n) THEN [ok |-> FALSE, ts |-> 0]
    ELSE [ok |-> n \in Parsed(files), ts |-> n.ts]

\* C14: for every archive a rotation produced, compressed or not, in every
\* zone, drain's extraction succeeds and yields the second of the rotation.
C14_RoundTrip ==
    \A n \in Archives : Extract(n).ok /\ Extract(n).ts = n.ts /\ n.ts \in stamps

\* A step of a goroutine: a name leaves the bag and no thread moves.
Background == tasks' # tasks /\ pc' = pc /\ ncalls' = ncalls
LiveKept ==
    /\ Exists(files', LogName) = Exists(files, LogName)
    /\ LiveContent(files') = LiveContent(files)

\* C15, as claimed, for the files removed: under every timing of the
\* rotations, a goroutine removes only the file it was started for, never a
\* file that a later rotation made under the same name.
C15_Detached_AnyTiming == ~stole

\* C15, amended: provided no two rotations that renamed the log file fell in
\* the same second, a goroutine removes only the file it was started for; and
\* no step of a goroutine changes w.fp, w.fsize or the live file.
C15_Detached ==
    /\ [](~collided => ~stole)
    /\ [][Background => (fp' = fp /\ fsize' = fsize /\ LiveKept)]_vars

\* Two rotations in distinct seconds, with compression and bounded retention;
\* the goroutines of both have run and the writer is open.
C15_Witness ==
    /\ compress /\ maxFiles = MaxKeep /\ ~utc /\ ~collided /\ nrot = 2
    /\ Quiet /\ RawFiles = {} /\ fp # Nil /\ ~stole

\* The rotation of the call that returned came back without an error.
RotatedOk ==
    /\ last.rotated
    /\ \/ last.op = "Rotate" /\ last.err = "ok"
       \/ last.op = "Write" /\ last.rerr = "ok" /\ last.err # "panic"

\* C16: when the rotation of a Rotate or of a Write returns no error (no
\* system call failed, the rotations fell in distinct seconds), the writer is
\* open on the live file, which holds what the call wrote since and nothing
\* else, w.fsize is that length, what the log file held at the call is in
\* the archive of its timestamp or in the .gz of it, and a Rotate of a path
\* that did not exist made no archive.
C16_RotationPostcondition ==
    (RotatedOk /\ nfaults = 0 /\ ~collided)
    => /\ fp # Nil /\ Exists(files, LogName)
       /\ Len(LiveContent(files)) = last.n /\ fsize = last.n
       /\ last.preEx => /\ Exists(files, RawName(last.ts))
                           \/ Exists(files, GzName(last.ts))
                        /\ ArchData(last.ts) = last.pre
       /\ (last.op = "Rotate" /\ ~last.preEx) => last.ts = 0

\* The goroutines that have yet to remove the file now named n.
Pending(n) ==
    {g \in BagToSet(tasks) :
        \E i \in 1..Len(g) : g[i].name = n /\ g[i].gen = Born(n)}

\* What C17 promises of a call that returned from the compress step: a
\* Rotate returned the error, the renamed file is on disk with what the log
\* file held at the call, and no goroutine is to remove it.
KeepsSource ==
    /\ last.op = "Rotate" => last.err = "err"
    /\ Exists(files, RawName(last.ts))
    /\ ArchData(last.ts) = last.pre
    /\ Pending(RawName(last.ts)) = {}

\* C17, as claimed: whenever the compress step of a rotation fails, under
\* every timing of the rotations, the source is kept.
C17_KeepsSource_AnyTiming == last.at = "compress" => KeepsSource

\* C17, amended: the same, provided no two rotations that renamed the log
\* file fell in the same second.
C17_KeepsSource == (last.at = "compress" /\ ~collided) => KeepsSource

\* A Rotate returned the error of a WriteFile that left a part of the .gz.
C17_Witness ==
    /\ last.at = "compress" /\ last.op = "Rotate" /\ ~collided
    /\ last.pre # << >> /\ Exists(files, GzName(last.ts))
    /\ ~GzValid(files[GzName(last.ts)])
    /\ files[RawName(last.ts)] = last.pre

\* C18: with MaxFiles = K and compression on, when at least K rotations
\* renamed the log file (in distinct seconds, no system call failing, in a
\* zone with a numeric offset), at least K archive files are on disk once
\* every goroutine has run.
C18_KeepsK ==
    (/\ Quiet /\ compress /\ maxFiles = MaxKeep /\ ~utc /\ nfaults = 0
     /\ ~collided /\ nrot >= MaxKeep)
    => Cardinality(Archives) >= MaxKeep

\* C19, as claimed: after a Write of at most MaxSize bytes the live file is
\* at most MaxSize bytes long, whatever the file held when the writer came
\* to it and whether or not the rotation of the Write succeeded.
C19_LiveBound_Always ==
    (last.op = "Write" /\ last.len <= MaxSize)
    => Len(LiveContent(files)) <= MaxSize

\* C19, amended: after a Write of at most MaxSize bytes the live file is at
\* most MaxSize bytes long, or a system call of the Write failed, the Write
\* wrote nothing and the live file is as it was before the call.
C19_LiveBound ==
    (last.op = "Write" /\ last.len <= MaxSize)
    => \/ Len(LiveContent(files)) <= MaxSize
       \/ /\ last.n = 0 /\ last.err # "ok"
          /\ LiveContent(files) = last.pre

\* A Write of one byte came to a log file longer than MaxSize, rotated it
\* and wrote to the new file.
C19_Witness ==
    /\ last.op = "Write" /\ last.len = 1 /\ last.rotated /\ last.err = "ok"
    /\ Len(last.pre) > MaxSize /\ LiveContent(files) = <<written>>

\* C20: with no Rotate call, every archive file, made then by the rotation
\* of a Write, holds at least one byte.
C20_NoEmptyArchive ==
    ~manual => \A n \in RawFiles : files[n] # << >>

====
